---- MODULE Spec2Model ----
(***************************************************************************)
(* Model of app/main.py: the asynchronous video concatenation pipeline     *)
(* (concat_videos, process_concat_job, get_job_status, jobs_store) and the *)
(* silence-aware audio segmenter (find_nearest_silence,                    *)
(* smart_split_audio).                                                     *)
(*                                                                         *)
(* Every statement `jobs_store[job_id][k] = v` of the worker thread is a   *)
(* step of its own: the request handlers run on the event loop thread and  *)
(* can read the table between any two of them.  Statements that only touch *)
(* the worker's locals are folded into the step that follows them.         *)
(***************************************************************************)
EXTENDS Integers, Sequences, FiniteSets, TLC

\* ------------------------------------------------------------------ bounds
MaxVideos == 2
MaxOverlays == 1
MaxEffects == 1
MaxDuration == 18
MaxParts == 5
MaxSilences == 3
SilenceLen == 2

\* ------------------------------------------------------------ plain values
None == <<>>

\* stand-ins for the uuid4 strings
JobIds == {1, 2}

\* str(e) of the ValueError raised by download_and_validate_video /
\* download_audio_file
FetchErrors == {"html", "too_small"}

\* A validated ConcatVideosRequest: number of video urls, presence of
\* audio_url, number of text overlays, image overlays and sound effects.
Requests ==
  [n : 1..MaxVideos, audio : BOOLEAN, overlays : 0..MaxOverlays,
   image_overlays : 0..MaxOverlays, sound_effects : 0..MaxEffects]

NoRequest ==
  [n |-> 0, audio |-> FALSE, overlays |-> 0, image_overlays |-> 0,
   sound_effects |-> 0]

VARIABLES
  jobs_store,          \* job_id -> record (the global dictionary)
  args,                \* job_id -> arguments handed to the worker thread
  pc,                  \* job_id -> position of the worker thread
  idx,                 \* job_id -> loop index of the download loop
  downloaded_videos,   \* job_id -> number of entries of downloaded_videos
  audio_path,          \* job_id -> TRUE when audio_path is not None
  mixed,               \* job_id -> TRUE when final_audio_path is the mixed track
  overlay_clips,       \* job_id -> number of entries of all_overlay_clips,
                       \* NoClips before line 805 assigns the list
  exc,                 \* job_id -> str(e) of the exception being handled
  fetches,             \* job_id -> asset downloads made so far
  cmds,                \* job_id -> encode invocations made so far
  temp_dirs,           \* job ids whose temp/<job_id> directory exists
  output_files,        \* job ids whose output/concat_<job_id>.mp4 exists
  returned,            \* job ids handed out by concat_videos
  response,            \* reply of the request handler that ran last
  total_duration,      \* smart_split_audio: len(audio), in ms
  num_parts,           \* smart_split_audio: num_parts
  silence_ranges,      \* smart_split_audio: what detect_silence returned
  current_start,       \* smart_split_audio: current_start
  segments,            \* smart_split_audio: segments
  split_pc             \* smart_split_audio: "idle", "loop" or "done"

pipeline_vars ==
  <<jobs_store, args, pc, idx, downloaded_videos, audio_path, mixed,
    overlay_clips, exc, fetches, cmds, temp_dirs, output_files, returned,
    response>>

split_vars ==
  <<total_duration, num_parts, silence_ranges, current_start, segments,
    split_pc>>

vars == <<pipeline_vars, split_vars>>

locals == <<idx, downloaded_videos, audio_path, mixed, overlay_clips>>

\* all_overlay_clips before line 805: not assigned
NoClips == 0 - 1

NoResponse == [route |-> "", code |-> 0, job_id |-> 0, body |-> None]

PipelineInit ==
  /\ jobs_store = <<>>
  /\ args = [j \in JobIds |-> NoRequest]
  /\ pc = [j \in JobIds |-> "idle"]
  /\ idx = [j \in JobIds |-> 0]
  /\ downloaded_videos = [j \in JobIds |-> 0]
  /\ audio_path = [j \in JobIds |-> FALSE]
  /\ mixed = [j \in JobIds |-> FALSE]
  /\ overlay_clips = [j \in JobIds |-> NoClips]
  /\ exc = [j \in JobIds |-> ""]
  /\ fetches = [j \in JobIds |-> <<>>]
  /\ cmds = [j \in JobIds |-> <<>>]
  /\ temp_dirs = {}
  /\ output_files = {}
  /\ returned = {}
  /\ response = NoResponse

SplitIdle ==
  /\ total_duration = 0
  /\ num_parts = 2
  /\ silence_ranges = <<>>
  /\ current_start = 0
  /\ segments = <<>>
  /\ split_pc = "idle"

Init == PipelineInit /\ SplitIdle

\* ------------------------------------------------------- request handlers

\* uuid.uuid4(): an id of the pool that no job has yet
uuid4(pool) ==
  CHOOSE j \in pool \ DOMAIN jobs_store :
    \A k \in pool \ DOMAIN jobs_store : j <= k

NewJob(job_id, r) ==
  [job_id |-> job_id,
   status |-> "queued",
   progress |-> 0,
   message |-> <<"Job queued">>,
   total_videos |-> r.n,
   has_custom_audio |-> r.audio,
   has_overlays |-> r.overlays > 0,
   has_image_overlays |-> r.image_overlays > 0,
   has_sound_effects |-> r.sound_effects > 0,
   video_filename |-> None,
   download_url |-> None,
   error |-> None,
   completed_at |-> None]

\* line 967 with 1 for 2
too_few_videos_below_1(r) == r.n < 1

\* line 967: len(request.video_urls) < 2
too_few_videos(r) == r.n < 2

\* POST /concat_videos/
concat_videos(r, pool) ==
  /\ IF too_few_videos(r)
     THEN /\ response' = [route |-> "concat_videos", code |-> 400,
                          job_id |-> 0, body |-> None]
          /\ UNCHANGED <<jobs_store, args, pc, returned>>
     ELSE /\ pool \ DOMAIN jobs_store # {}
          /\ LET job_id == uuid4(pool) IN
             /\ jobs_store' = jobs_store @@ (job_id :> NewJob(job_id, r))
             /\ args' = [args EXCEPT ![job_id] = r]
             /\ pc' = [pc EXCEPT ![job_id] = "L746"]
             /\ returned' = returned \cup {job_id}
             /\ response' = [route |-> "concat_videos", code |-> 200,
                             job_id |-> job_id,
                             body |-> [job_id |-> job_id,
                                       status |-> "queued"]]
  /\ UNCHANGED <<locals, exc, fetches, cmds, temp_dirs, output_files,
                 split_vars>>

\* GET /jobs/{job_id}
get_job_status(job_id) ==
  /\ response' = IF job_id \notin DOMAIN jobs_store
                 THEN [route |-> "jobs", code |-> 404, job_id |-> job_id,
                       body |-> None]
                 ELSE [route |-> "jobs", code |-> 200, job_id |-> job_id,
                       body |-> jobs_store[job_id]]
  /\ UNCHANGED <<jobs_store, args, pc, locals, exc, fetches, cmds, temp_dirs,
                 output_files, returned, split_vars>>

\* ------------------------------------------------- process_concat_job

\* line 791
has_overlays_text_only(j) == args[j].overlays > 0

has_overlays(j) == args[j].overlays > 0 \/ args[j].image_overlays > 0

\* lines 830 and 862 without `audio_url and audio_path`
wants_mix_without_audio(j) == args[j].sound_effects > 0

\* lines 830 and 862: audio_url and audio_path and sound_effects and len(..) > 0
wants_mix(j) == args[j].audio /\ audio_path[j] /\ args[j].sound_effects > 0

\* lines 835, 867 and 897: audio_url and final_audio_path
uses_custom_audio(j) == args[j].audio /\ audio_path[j]

\* line 760 scaled to 100 instead of 40
download_progress_of_100(i, total_videos) ==
  ((i + 1) * 100) \div total_videos

\* line 760: int((idx + 1) / total_videos * 40)
download_progress(i, total_videos) == ((i + 1) * 40) \div total_videos

\* line 764 with a 1-based index
video_error_one_based(i, e) == <<"Video", i + 1, e>>

\* line 764: f"Video {idx}: {str(e)}"
video_error(i, e) == <<"Video", i, e>>

\* line 780: f"Audio download failed: {str(e)}"
audio_error(e) == <<"Audio download failed", e>>

\* lines 787 and 934
video_filename(j) == <<"concat", j, "mp4">>

download_url(j) == <<"base_url", "videos", video_filename(j)>>

\* The assignment jobs_store[job_id][key] = val standing at label p.
WriteAt(p, j) ==
  CASE p = "L749" -> [key |-> "status", val |-> "downloading"]
    [] p = "L750" -> [key |-> "progress", val |-> 0]
    [] p = "L760" -> [key |-> "progress",
                      val |-> download_progress(idx[j], args[j].n)]
    [] p = "L761" -> [key |-> "message",
                      val |-> <<"Downloaded", idx[j] + 1, args[j].n>>]
    [] p = "L763" -> [key |-> "status", val |-> "failed"]
    [] p = "L764" -> [key |-> "error", val |-> video_error(idx[j], exc[j])]
    [] p = "L768" -> [key |-> "status", val |-> "failed"]
    [] p = "L769" -> [key |-> "error",
                      val |-> <<"No videos were successfully downloaded">>]
    [] p = "L775" -> [key |-> "progress", val |-> 45]
    [] p = "L776" -> [key |-> "message", val |-> <<"Downloading audio...">>]
    [] p = "L779" -> [key |-> "status", val |-> "failed"]
    [] p = "L780" -> [key |-> "error", val |-> audio_error(exc[j])]
    [] p = "L783" -> [key |-> "status", val |-> "processing"]
    [] p = "L784" -> [key |-> "progress", val |-> 50]
    [] p = "L785" -> [key |-> "message", val |-> <<"Concatenating videos...">>]
    [] p = "L794" -> [key |-> "message",
                      val |-> <<"Processing with overlays (re-encoding)...">>]
    [] p = "L831" -> [key |-> "message", val |-> <<"Mixing sound effects...">>]
    [] p = "L863" -> [key |-> "message", val |-> <<"Mixing sound effects...">>]
    [] p = "L930" -> [key |-> "status", val |-> "completed"]
    [] p = "L931" -> [key |-> "progress", val |-> 100]
    [] p = "L932" -> [key |-> "message", val |-> <<"Video ready">>]
    [] p = "L933" -> [key |-> "video_filename", val |-> video_filename(j)]
    [] p = "L934" -> [key |-> "download_url", val |-> download_url(j)]
    [] p = "L935" -> [key |-> "completed_at", val |-> <<"now">>]
    [] p = "L938" -> [key |-> "status", val |-> "failed"]
    [] p = "L939" -> [key |-> "error",
                      val |-> <<"Processing timed out (max 10 minutes)">>]
    [] p = "L941" -> [key |-> "status", val |-> "failed"]
    [] p = "L942" -> [key |-> "error", val |-> <<exc[j]>>]
    [] p = "L945" -> [key |-> "status", val |-> "failed"]
    [] p = "L946" -> [key |-> "error", val |-> <<"Unexpected error", exc[j]>>]

WriteLabels ==
  {"L749", "L750", "L760", "L761", "L763", "L764", "L768", "L769", "L775",
   "L776", "L779", "L780", "L783", "L784", "L785", "L794", "L831", "L863",
   "L930", "L931", "L932", "L933", "L934", "L935", "L938", "L939", "L941",
   "L942", "L945", "L946"}

\* Where the download loop stands after iteration idx: the next iteration,
\* or past the loop (lines 767, 773).
AfterLoop(j) ==
  IF downloaded_videos[j] = 0 THEN "L768"
  ELSE IF args[j].audio THEN "L775" ELSE "L783"

\* line 781 missing: the worker goes on after a failed audio download
return_781_missing(j) == "L783"

\* line 781: `return` inside the try statement, so the finally clause is next
return_781(j) == "L949"

\* line 765 missing: the loop goes on after a failed download
return_765_missing(j) == "L755"

\* line 765: `return` inside the try statement, so the finally clause is next
return_765(j) == "L949"

\* The statement the worker reaches after the assignment at label p.
NextAfterWrite(p, j) ==
  CASE p = "L749" -> "L750"
    [] p = "L750" -> "L755"
    [] p = "L760" -> "L761"
    [] p = "L761" -> "L755"
    [] p = "L763" -> "L764"
    [] p = "L764" -> return_765(j)
    [] p = "L768" -> "L769"
    [] p = "L769" -> "L949"
    [] p = "L775" -> "L776"
    [] p = "L776" -> "L777"
    [] p = "L779" -> "L780"
    [] p = "L780" -> return_781(j)
    [] p = "L783" -> "L784"
    [] p = "L784" -> "L785"
    [] p = "L785" -> IF has_overlays(j) THEN "L794" ELSE "L857"
    [] p = "L794" -> "L796"
    [] p = "L831" -> "L833"
    [] p = "L863" -> "L865"
    [] p = "L930" -> "L931"
    [] p = "L931" -> "L932"
    [] p = "L932" -> "L933"
    [] p = "L933" -> "L934"
    [] p = "L934" -> "L935"
    [] p = "L935" -> "L949"
    [] p = "L938" -> "L939"
    [] p = "L939" -> "L949"
    [] p = "L941" -> "L942"
    [] p = "L942" -> "L949"
    [] p = "L945" -> "L946"
    [] p = "L946" -> "L949"

\* A step of the worker thread leaves no reply behind.
WorkerFrame ==
  response' = NoResponse /\ UNCHANGED <<args, returned, split_vars>>

Goto(j, p) == pc' = [pc EXCEPT ![j] = p]

\* except handlers: the inner try (lines 790-942) and the outer one (748-946)
Raise(j, handler, e) == Goto(j, handler) /\ exc' = [exc EXCEPT ![j] = e]

\* lines 745-746: temp_session_dir.mkdir(parents=True, exist_ok=True), which
\* stands before the try statement
make_temp_dir(j) ==
  /\ pc[j] = "L746"
  /\ \/ /\ temp_dirs' = temp_dirs \cup {j}
        /\ Goto(j, "L749")
     \/ /\ Goto(j, "crashed")
        /\ UNCHANGED temp_dirs
  /\ WorkerFrame
  /\ UNCHANGED <<jobs_store, locals, exc, fetches, cmds, output_files>>

\* any statement jobs_store[job_id][key] = val of the worker
store_write(j) ==
  /\ pc[j] \in WriteLabels
  /\ LET w == WriteAt(pc[j], j) IN
       jobs_store' = [jobs_store EXCEPT ![j][w.key] = w.val]
  /\ Goto(j, NextAfterWrite(pc[j], j))
  /\ idx' = [idx EXCEPT ![j] = IF pc[j] = "L761" THEN @ + 1 ELSE @]
  /\ WorkerFrame
  /\ UNCHANGED <<downloaded_videos, audio_path, mixed, overlay_clips, exc,
                 fetches, cmds, temp_dirs, output_files>>

\* one call of download_and_validate_video / download_audio_file, as seen
\* by the worker
Fetch(j, kind, index, result) ==
  fetches' = [fetches EXCEPT ![j] =
                Append(@, [kind |-> kind, index |-> index, result |-> result])]

\* lines 755-759 and 767-773: one turn of the download loop.  The download
\* returns a path, raises ValueError (lines 364, 373, 378) or raises
\* something else (the file cannot be written)
download_video(j) ==
  /\ pc[j] = "L755"
  /\ IF idx[j] < args[j].n
     THEN \/ /\ Fetch(j, "video", idx[j], "ok")
             /\ downloaded_videos' = [downloaded_videos EXCEPT ![j] = @ + 1]
             /\ Goto(j, "L760")
             /\ UNCHANGED exc
          \/ /\ \E e \in FetchErrors :
                  Fetch(j, "video", idx[j], e) /\ Raise(j, "L763", e)
             /\ UNCHANGED downloaded_videos
          \/ /\ Fetch(j, "video", idx[j], "OSError")
             /\ Raise(j, "L945", "OSError")
             /\ UNCHANGED downloaded_videos
     ELSE /\ Goto(j, AfterLoop(j))
          /\ UNCHANGED <<downloaded_videos, exc, fetches>>
  /\ WorkerFrame
  /\ UNCHANGED <<jobs_store, idx, audio_path, mixed, overlay_clips, cmds,
                 temp_dirs, output_files>>

\* line 777: download_audio_file(...), with the same three outcomes
download_audio(j) ==
  /\ pc[j] = "L777"
  /\ \/ /\ Fetch(j, "audio", 0, "ok")
        /\ audio_path' = [audio_path EXCEPT ![j] = TRUE]
        /\ Goto(j, "L783")
        /\ UNCHANGED exc
     \/ /\ \E e \in FetchErrors :
             Fetch(j, "audio", 0, e) /\ Raise(j, "L779", e)
        /\ UNCHANGED audio_path
     \/ /\ Fetch(j, "audio", 0, "OSError")
        /\ Raise(j, "L945", "OSError")
        /\ UNCHANGED audio_path
  /\ WorkerFrame
  /\ UNCHANGED <<jobs_store, idx, downloaded_videos, mixed, overlay_clips,
                 cmds, temp_dirs, output_files>>

\* lines 796-827 without the try statements of lines 809-813 and 817-821:
\* the first overlay whose clip cannot be built ends the inner try
compose_clips_unguarded(j) ==
  /\ pc[j] = "L796"
  /\ \/ /\ overlay_clips' =
             [overlay_clips EXCEPT
                ![j] = args[j].image_overlays + args[j].overlays]
        /\ Goto(j, IF wants_mix(j) THEN "L831" ELSE "L839")
        /\ UNCHANGED exc
     \/ /\ \E built \in 0..(args[j].image_overlays + args[j].overlays - 1) :
             overlay_clips' = [overlay_clips EXCEPT ![j] = built]
        /\ Raise(j, "L941", "overlay error")
     \/ /\ Raise(j, "L941", "moviepy error")
        /\ UNCHANGED overlay_clips
  /\ WorkerFrame
  /\ UNCHANGED <<jobs_store, idx, downloaded_videos, audio_path, mixed,
                 fetches, cmds, temp_dirs, output_files>>

\* lines 796-827: open the clips, concatenate them and build the overlay
\* clips; an overlay whose clip cannot be built is skipped (lines 813, 821)
compose_clips(j) ==
  /\ pc[j] = "L796"
  /\ \/ /\ \E built \in 0..(args[j].image_overlays + args[j].overlays) :
             overlay_clips' = [overlay_clips EXCEPT ![j] = built]
        /\ Goto(j, IF wants_mix(j) THEN "L831" ELSE "L839")
        /\ UNCHANGED exc
     \/ /\ Raise(j, "L941", "moviepy error")
        /\ UNCHANGED overlay_clips
  /\ WorkerFrame
  /\ UNCHANGED <<jobs_store, idx, downloaded_videos, audio_path, mixed,
                 fetches, cmds, temp_dirs, output_files>>

\* lines 856-859: write concat_list.txt
write_concat_list(j) ==
  /\ pc[j] = "L857"
  /\ \/ /\ Goto(j, IF wants_mix(j) THEN "L863" ELSE "L894")
        /\ UNCHANGED exc
     \/ Raise(j, "L941", "OSError")
  /\ WorkerFrame
  /\ UNCHANGED <<jobs_store, locals, fetches, cmds, temp_dirs, output_files>>

\* lines 833 and 865: mix_sound_effects(...); a sound effect that cannot be
\* fetched or decoded is skipped (line 736), the main track and the export
\* are not guarded
mix_sound_effects(j) ==
  /\ pc[j] \in {"L833", "L865"}
  /\ \/ /\ mixed' = [mixed EXCEPT ![j] = TRUE]
        /\ Goto(j, IF pc[j] = "L833" THEN "L839" ELSE "L894")
        /\ UNCHANGED exc
     \/ /\ Raise(j, "L941", "pydub error")
        /\ UNCHANGED mixed
  /\ WorkerFrame
  /\ UNCHANGED <<jobs_store, idx, downloaded_videos, audio_path,
                 overlay_clips, fetches, cmds, temp_dirs, output_files>>

\* ---- encode invocations

\* lines 839-848: final_video.write_videofile(...), no -movflags, no timeout
moviepy_cmd(j, result) ==
  [tool |-> "write_videofile", vcodec |-> "libx264",
   audio_input |-> uses_custom_audio(j), faststart |-> FALSE, timeout |-> 0,
   result |-> result]

\* lines 868-892 and 894
stream_copy_cmd(j, result) ==
  [tool |-> "ffmpeg", vcodec |-> "copy",
   audio_input |-> uses_custom_audio(j), faststart |-> TRUE, timeout |-> 300,
   result |-> result]

\* lines 898-925
reencode_cmd(j, result) ==
  [tool |-> "ffmpeg", vcodec |-> "libx264",
   audio_input |-> uses_custom_audio(j), faststart |-> TRUE, timeout |-> 600,
   result |-> result]

\* what subprocess.run(cmd, timeout=...) can do: return with exit status 0,
\* return with another exit status, raise TimeoutExpired, raise another error
RunResults == {"ok", "nonzero", "timeout", "error"}

Run(j, cmd) == cmds' = [cmds EXCEPT ![j] = Append(@, cmd)]

\* line 896 turned into a raise: no fallback
after_stream_copy_no_fallback(result) ==
  CASE result = "ok" -> "L930"
    [] result = "nonzero" -> "L941"
    [] result = "timeout" -> "L938"
    [] result = "error" -> "L941"

\* lines 894-896 and the handlers of lines 937 and 940
after_stream_copy(result) ==
  CASE result = "ok" -> "L930"
    [] result = "nonzero" -> "L925"
    [] result = "timeout" -> "L938"
    [] result = "error" -> "L941"

\* lines 927-928 missing: the exit status of the fallback is not looked at
after_reencode_unchecked(result) ==
  CASE result = "ok" -> "L930"
    [] result = "nonzero" -> "L930"
    [] result = "timeout" -> "L938"
    [] result = "error" -> "L941"

\* lines 937-939 missing: TimeoutExpired goes to the handler of line 940
after_reencode_no_timeout_handler(result) ==
  CASE result = "ok" -> "L930"
    [] result = "nonzero" -> "L941"
    [] result = "timeout" -> "L941"
    [] result = "error" -> "L941"

\* lines 925-928 and the handlers of lines 937 and 940
after_reencode(result) ==
  CASE result = "ok" -> "L930"
    [] result = "nonzero" -> "L941"
    [] result = "timeout" -> "L938"
    [] result = "error" -> "L941"

\* str(e) of the exception an encode invocation ends with
run_exception(result) ==
  CASE result = "nonzero" -> "FFmpeg failed"
    [] result = "timeout" -> "TimeoutExpired"
    [] result = "error" -> "OSError"
    [] OTHER -> ""

\* lines 835-854: attach the audio and write the file with moviepy
write_videofile(j) ==
  /\ pc[j] = "L839"
  /\ \/ /\ Run(j, moviepy_cmd(j, "ok"))
        /\ output_files' = output_files \cup {j}
        /\ Goto(j, "L930")
        /\ UNCHANGED exc
     \/ /\ Run(j, moviepy_cmd(j, "error"))
        /\ Raise(j, "L941", "moviepy error")
        /\ UNCHANGED output_files
     \/ /\ Run(j, moviepy_cmd(j, "blocked"))
        /\ Goto(j, "blocked")
        /\ UNCHANGED <<exc, output_files>>
  /\ WorkerFrame
  /\ UNCHANGED <<jobs_store, locals, fetches, temp_dirs>>

\* line 894: subprocess.run(cmd, capture_output=True, text=True, timeout=300)
run_stream_copy(j) ==
  /\ pc[j] = "L894"
  /\ \E result \in RunResults :
       /\ Run(j, stream_copy_cmd(j, result))
       /\ Goto(j, after_stream_copy(result))
       /\ exc' = [exc EXCEPT ![j] =
                    IF result \in {"timeout", "error"}
                    THEN run_exception(result) ELSE @]
       /\ output_files' = IF result = "ok" THEN output_files \cup {j}
                          ELSE output_files
  /\ WorkerFrame
  /\ UNCHANGED <<jobs_store, locals, fetches, temp_dirs>>

\* line 925: subprocess.run(cmd_reencode, ..., timeout=600), lines 927-928
run_reencode(j) ==
  /\ pc[j] = "L925"
  /\ \E result \in RunResults :
       /\ Run(j, reencode_cmd(j, result))
       /\ Goto(j, after_reencode(result))
       /\ exc' = [exc EXCEPT ![j] = run_exception(result)]
       /\ output_files' = IF result = "ok" THEN output_files \cup {j}
                          ELSE output_files
  /\ WorkerFrame
  /\ UNCHANGED <<jobs_store, locals, fetches, temp_dirs>>

\* the finally clause also dropping the finished job from the table
cleanup_evicts(j) ==
  /\ pc[j] = "L949"
  /\ temp_dirs' = temp_dirs \ {j}
  /\ jobs_store' = [k \in DOMAIN jobs_store \ {j} |-> jobs_store[k]]
  /\ Goto(j, "done")
  /\ WorkerFrame
  /\ UNCHANGED <<locals, exc, fetches, cmds, output_files>>

\* line 951 removing TEMP_DIR instead of temp_session_dir
cleanup_whole_temp(j) ==
  /\ pc[j] = "L949"
  /\ temp_dirs' = {}
  /\ Goto(j, "done")
  /\ WorkerFrame
  /\ UNCHANGED <<jobs_store, locals, exc, fetches, cmds, output_files>>

\* lines 948-953: the finally clause; a failing rmtree is swallowed
cleanup(j) ==
  /\ pc[j] = "L949"
  /\ \/ temp_dirs' = temp_dirs \ {j}
     \/ j \in temp_dirs /\ UNCHANGED temp_dirs
  /\ Goto(j, "done")
  /\ WorkerFrame
  /\ UNCHANGED <<jobs_store, locals, exc, fetches, cmds, output_files>>

Worker ==
  \/ \E j \in JobIds : make_temp_dir(j)
  \/ \E j \in JobIds : store_write(j)
  \/ \E j \in JobIds : download_video(j)
  \/ \E j \in JobIds : download_audio(j)
  \/ \E j \in JobIds : compose_clips(j)
  \/ \E j \in JobIds : write_concat_list(j)
  \/ \E j \in JobIds : mix_sound_effects(j)
  \/ \E j \in JobIds : write_videofile(j)
  \/ \E j \in JobIds : run_stream_copy(j)
  \/ \E j \in JobIds : run_reencode(j)
  \/ \E j \in JobIds : cleanup(j)

\* ---- one accepted job, any number of rejected submits and status reads
OneJob == {1}

Next ==
  \/ \E r \in Requests : concat_videos(r, OneJob)
  \/ \E j \in JobIds : get_job_status(j)
  \/ Worker

Spec == Init /\ [][Next]_vars

\* ---- two jobs running side by side
PairRequests ==
  {[n |-> 2, audio |-> TRUE, overlays |-> 0, image_overlays |-> 0,
    sound_effects |-> 1],
   [n |-> 2, audio |-> FALSE, overlays |-> 1, image_overlays |-> 0,
    sound_effects |-> 0]}

NextPair ==
  \/ \E r \in PairRequests : concat_videos(r, JobIds)
  \/ \E j \in JobIds : get_job_status(j)
  \/ Worker

SpecPair == Init /\ [][NextPair]_vars

\* ------------------------------------------------------- audio segmenter
\* Times are held as integer multiples of 1/(10 * num_parts) ms, so that
\* total_duration / num_parts, the factor 0.4 and the midpoints
\* (start + end) / 2 are whole numbers of that unit.  The code computes in
\* binary floating point: a value of the model stands for the float next to
\* it.  Two floats compare as the exact values do when the exact values
\* differ (they differ by a unit or more, the rounding error is far below
\* it); when the exact values are equal the floats compare as equal only
\* if total_duration / num_parts is a binary fraction, else the comparison
\* can go either way.

Unit(n) == 10 * n

Abs(x) == IF x < 0 THEN 0 - x ELSE x

NoPoint == 0 - 1

RECURSIVE OddPart(_)
OddPart(n) == IF n % 2 = 0 THEN OddPart(n \div 2) ELSE n

\* total_duration / num_parts has a finite binary expansion
ExactFloats(t, n) == t % OddPart(n) = 0

\* outcomes of the float comparison x < y
FloatLess(x, y, exact) ==
  IF x = y /\ ~exact THEN {TRUE, FALSE} ELSE {x < y}

\* outcomes of the float comparison x <= y
FloatLeq(x, y, exact) ==
  IF x = y /\ ~exact THEN {TRUE, FALSE} ELSE {x <= y}

\* line 1035: midpoint = (start + end) / 2, for start and end in ms
midpoint(range, n) == (range[1] + range[2]) * 5 * n

\* line 1038 with <= for <: a later range at the same distance replaces the
\* earlier one
closer_last_wins(distance, best_point, best_distance, exact) ==
  IF best_point = NoPoint THEN {TRUE}
  ELSE FloatLeq(distance, best_distance, exact)

\* line 1038, left operand: distance < best_distance, where a best_point of
\* None goes with a best_distance of float('inf')
closer(distance, best_point, best_distance, exact) ==
  IF best_point = NoPoint THEN {TRUE}
  ELSE FloatLess(distance, best_distance, exact)

\* lines 1034-1040 from the k-th range on, with best_point and best_distance
\* as they stand: the values the loop can end with
RECURSIVE nearest_from(_, _, _, _, _, _, _, _)
nearest_from(k, target, ranges, tol, n, exact, best_point, best_distance) ==
  IF k > Len(ranges) THEN {best_point}
  ELSE LET m == midpoint(ranges[k], n)
           distance == Abs(m - target)
       IN UNION
            {IF lt /\ le
             THEN nearest_from(k + 1, target, ranges, tol, n, exact, m,
                               distance)
             ELSE nearest_from(k + 1, target, ranges, tol, n, exact,
                               best_point, best_distance) :
             <<lt, le>> \in
               closer(distance, best_point, best_distance, exact)
                 \X FloatLeq(distance, tol, exact)}

\* lines 1029-1042
find_nearest_silence(target, ranges, tol, n, exact) ==
  nearest_from(1, target, ranges, tol, n, exact, NoPoint, 0)

\* line 1050 with // for /
ideal_segment_length_floor ==
  (total_duration \div num_parts) * Unit(num_parts)

\* line 1050: total_duration / num_parts
ideal_segment_length == total_duration * 10

\* line 1065 without the factor 0.4
tolerance_whole_segment == ideal_segment_length

\* line 1065: ideal_segment_length * 0.4
tolerance == (ideal_segment_length * 4) \div 10

\* line 1063 counted from 0 instead of from current_start
ideal_end_from_grid == (Len(segments) + 1) * ideal_segment_length

\* line 1063
ideal_end == current_start + ideal_segment_length

\* line 1074 without the min
clamp_missing(end, total) == end

\* line 1074: min(actual_end, total_duration)
clamp(end, total) == IF end < total THEN end ELSE total

\* lines 1063-1074: the ends the segment that starts at current_start can
\* be given
actual_ends ==
  {clamp(IF silence_point # NoPoint THEN silence_point ELSE ideal_end,
         total_duration * Unit(num_parts)) :
   silence_point \in
     find_nearest_silence(ideal_end, silence_ranges, tolerance, num_parts,
                          ExactFloats(total_duration, num_parts))}

\* lines 1062-1077: one turn of the loop
split_cut ==
  /\ split_pc = "loop"
  /\ Len(segments) < num_parts - 1
  /\ \E actual_end \in actual_ends :
       /\ segments' = Append(segments, <<current_start, actual_end>>)
       /\ current_start' = actual_end
  /\ UNCHANGED <<total_duration, num_parts, silence_ranges, split_pc,
                 pipeline_vars>>

\* lines 1079-1081: the last segment takes what is left
split_finish ==
  /\ split_pc = "loop"
  /\ Len(segments) = num_parts - 1
  /\ segments' =
       Append(segments, <<current_start, total_duration * Unit(num_parts)>>)
  /\ split_pc' = "done"
  /\ UNCHANGED <<total_duration, num_parts, silence_ranges, current_start,
                 pipeline_vars>>

\* What detect_silence can return for an audio of t ms: ranges [start, end]
\* inside [0, t], in time order, no two touching.  At most k ranges, the
\* first not before lo.
RECURSIVE SilenceLists(_, _, _)
SilenceLists(lo, t, k) ==
  IF k = 0 THEN {<<>>}
  ELSE {<<>>} \cup
       UNION {{<<<<s, s + SilenceLen>>>> \o rest :
                 rest \in SilenceLists(s + SilenceLen + 1, t, k - 1)} :
              s \in lo..(t - SilenceLen)}

\* Two recordings of 100000 ms cut in 4: one with silences at 24800-25300
\* and 74500-75900, one with a single silence at 27000-28000
SplitExamples ==
  {<<100000, 4, <<<<24800, 25300>>, <<74500, 75900>>>>>>,
   <<100000, 4, <<<<27000, 28000>>>>>>}

\* total_duration, num_parts and silence_ranges of a call: every short
\* recording with every list of silences, and the examples
SplitInputs ==
  SplitExamples \cup
  UNION {{<<t, n, ranges>> : ranges \in SilenceLists(0, t, MaxSilences)} :
         <<t, n>> \in (0..MaxDuration) \X (2..MaxParts)}

\* smart_split_audio called on some audio with some num_parts >= 2 (line
\* 153), no job submitted
SplitInit ==
  /\ \E input \in SplitInputs :
       /\ total_duration = input[1]
       /\ num_parts = input[2]
       /\ silence_ranges = input[3]
  /\ current_start = 0
  /\ segments = <<>>
  /\ split_pc = "loop"
  /\ jobs_store = <<>>
  /\ args = [j \in JobIds |-> NoRequest]
  /\ pc = [j \in JobIds |-> "idle"]
  /\ idx = [j \in JobIds |-> 0]
  /\ downloaded_videos = [j \in JobIds |-> 0]
  /\ audio_path = [j \in JobIds |-> FALSE]
  /\ mixed = [j \in JobIds |-> FALSE]
  /\ overlay_clips = [j \in JobIds |-> NoClips]
  /\ exc = [j \in JobIds |-> ""]
  /\ fetches = [j \in JobIds |-> <<>>]
  /\ cmds = [j \in JobIds |-> <<>>]
  /\ temp_dirs = {}
  /\ output_files = {}
  /\ returned = {}
  /\ response = NoResponse

SplitNext == split_cut \/ split_finish

SpecSplit == SplitInit /\ [][SplitNext]_vars

\* ================================================================ claims

Jobs == DOMAIN jobs_store

Terminal == {"completed", "failed"}

Terminated(j) == pc[j] \in {"done", "crashed"}

\* the overlays the request carries, read off the arguments of the worker
CarriesOverlays(j) == args[j].overlays + args[j].image_overlays > 0

StatusEdges ==
  {<<"queued", "downloading">>, <<"downloading", "processing">>,
   <<"downloading", "failed">>, <<"processing", "completed">>,
   <<"processing", "failed">>}

\* C1: every step leaves each job's status where it is or moves it along
\* queued -> downloading -> processing -> completed | failed, or from
\* downloading to failed; a job enters the table as queued.
C1_StatusMovesForward ==
  [][/\ \A j \in Jobs :
          /\ j \in DOMAIN jobs_store'
          /\ \/ jobs_store'[j].status = jobs_store[j].status
             \/ <<jobs_store[j].status, jobs_store'[j].status>>
                  \in StatusEdges
     /\ \A j \in DOMAIN jobs_store' \ Jobs :
          jobs_store'[j].status = "queued"]_vars

C1_Witness ==
  \E j \in Jobs : pc[j] = "done" /\ jobs_store[j].status = "completed"

\* C2: a job whose worker has terminated is completed or failed, wherever
\* in the worker the fault struck.
C2_TerminatedWorkerLeftTerminalStatus ==
  \A j \in Jobs : Terminated(j) => jobs_store[j].status \in Terminal

\* C3: once a job is completed or failed no step changes its record.
C3_TerminalRecordImmutable ==
  [][\A j \in Jobs :
       jobs_store[j].status \in Terminal
         => j \in DOMAIN jobs_store' /\ jobs_store'[j] = jobs_store[j]]_vars

\* C4: no reply of get_job_status is torn: completed comes with progress
\* 100, a file name and a download url, failed comes with an error.
C4_NoTornSnapshot ==
  (response.route = "jobs" /\ response.code = 200) =>
    LET job == response.body IN
      /\ job.status = "completed" =>
           /\ job.progress = 100
           /\ job.video_filename # None
           /\ job.download_url # None
      /\ job.status = "failed" => job.error # None

\* C5: every job id concat_videos has handed out is in the table, and a
\* status request for it is never answered 404.
C5_ReturnedJobIsFound ==
  /\ returned \subseteq Jobs
  /\ (response.route = "jobs" /\ response.job_id \in returned)
       => response.code = 200 /\ response.body.job_id = response.job_id

C5_Witness ==
  /\ returned = JobIds
  /\ pc[1] = "done"
  /\ pc[2] \notin {"done", "crashed", "L746"}
  /\ response.route = "jobs"
  /\ response.job_id = 1
  /\ response.code = 200

\* C6: what smart_split_audio returns is num_parts segments, the first
\* starting at 0, the last ending at the total duration, each starting where
\* the one before ends, none ending before it starts.
C6_SegmentsCoverTimeline ==
  split_pc = "done" =>
    /\ Len(segments) = num_parts
    /\ segments[1][1] = 0
    /\ segments[num_parts][2] = total_duration * Unit(num_parts)
    /\ \A k \in 1..num_parts : segments[k][1] <= segments[k][2]
    /\ \A k \in 1..(num_parts - 1) : segments[k][2] = segments[k + 1][1]

\* a run in which cuts were moved onto silences and the last cut was held
\* back at the end of the audio
C6_Witness ==
  /\ split_pc = "done"
  /\ total_duration > 0
  /\ Len(silence_ranges) > 0
  /\ segments[num_parts] =
       <<total_duration * Unit(num_parts), total_duration * Unit(num_parts)>>
  /\ segments[1][2] # ideal_segment_length

\* C7: a job that carries a text overlay or an image overlay runs no
\* stream-copy command: every encode it makes is the moviepy re-encode.
C7_OverlaysNeverStreamCopy ==
  \A j \in Jobs :
    CarriesOverlays(j) =>
      \A k \in 1..Len(cmds[j]) :
        cmds[j][k].vcodec # "copy" /\ cmds[j][k].tool = "write_videofile"

C7_Witness ==
  \E j \in Jobs :
    /\ args[j].overlays = 0
    /\ args[j].image_overlays > 0
    /\ args[j].audio
    /\ args[j].sound_effects > 0
    /\ Len(cmds[j]) = 1
    /\ jobs_store[j].status = "completed"

\* C8, as stated: without overlays the first encode is a stream-copy, and a
\* job whose stream-copy did not succeed, for whatever reason, is failed
\* only after one re-encode has been run as well.
C8_AnyCopyFailureIsRetried ==
  \A j \in Jobs :
    (~CarriesOverlays(j) /\ cmds[j] # <<>>) =>
      /\ cmds[j][1].vcodec = "copy"
      /\ (cmds[j][1].result # "ok" /\ jobs_store[j].status = "failed")
           => Len(cmds[j]) = 2 /\ cmds[j][2].vcodec = "libx264"

\* C8, amended: without overlays the first encode is a stream-copy; when it
\* returns a non-zero exit status the job is failed only after exactly one
\* re-encode has been run as well, and a re-encode is run in no other case;
\* when it times out or raises, the job fails without a second encode.
C8_NonZeroCopyIsRetriedOnce ==
  \A j \in Jobs :
    (~CarriesOverlays(j) /\ cmds[j] # <<>>) =>
      /\ cmds[j][1].vcodec = "copy"
      /\ Len(cmds[j]) <= 2
      /\ Len(cmds[j]) = 2 =>
           cmds[j][1].result = "nonzero" /\ cmds[j][2].vcodec = "libx264"
      /\ (cmds[j][1].result = "nonzero" /\ jobs_store[j].status = "failed")
           => Len(cmds[j]) = 2
      /\ (cmds[j][1].result \in {"timeout", "error"} /\ pc[j] = "done")
           => Len(cmds[j]) = 1 /\ jobs_store[j].status = "failed"

C8_Witness ==
  \E j \in Jobs :
    /\ ~CarriesOverlays(j)
    /\ Len(cmds[j]) = 2
    /\ cmds[j][1].result = "nonzero"
    /\ cmds[j][2].result = "nonzero"
    /\ jobs_store[j].status = "failed"

\* C9: no job runs more than two encode commands or more than one ffmpeg
\* re-encode, and a job whose fallback re-encode failed is never completed
\* and is failed when its worker ends.
C9_FallbackAtMostOnce ==
  \A j \in Jobs :
    /\ Len(cmds[j]) <= 2
    /\ Cardinality({k \in 1..Len(cmds[j]) :
                      cmds[j][k].tool = "ffmpeg" /\
                      cmds[j][k].vcodec = "libx264"}) <= 1
    /\ (Len(cmds[j]) = 2 /\ cmds[j][2].result # "ok") =>
         /\ jobs_store[j].status # "completed"
         /\ pc[j] = "done" => jobs_store[j].status = "failed"

C9_Witness ==
  \E j \in Jobs :
    /\ Len(cmds[j]) = 2
    /\ cmds[j][2].result = "timeout"
    /\ pc[j] = "done"
    /\ jobs_store[j].status = "failed"

\* the downloads of job j that ended with a fetch error
FailedFetches(j) ==
  {k \in 1..Len(fetches[j]) : fetches[j][k].result \in FetchErrors}

\* the error string names asset index i
MentionsIndex(error, i) == error # None /\ error[1] = "Video" /\ error[2] = i

\* C10, as stated: when the worker of a job one of whose fetches failed has
\* ended, the job is failed and its error names the index of that asset,
\* for a video and for the replacement audio alike.
C10_FetchErrorNamesIndex ==
  \A j \in Jobs :
    pc[j] = "done" =>
      \A k \in FailedFetches(j) :
        /\ jobs_store[j].status = "failed"
        /\ MentionsIndex(jobs_store[j].error, fetches[j][k].index)

\* C10, amended: when the worker of a job one of whose fetches failed with
\* a fetch error has ended, the job is failed; for the video at index i the
\* error is "Video i: <reason>", for the replacement audio it is
\* "Audio download failed: <reason>", which names no index.
C10_FetchErrorNamesAsset ==
  \A j \in Jobs :
    pc[j] = "done" =>
      \A k \in FailedFetches(j) :
        /\ jobs_store[j].status = "failed"
        /\ jobs_store[j].error =
             IF fetches[j][k].kind = "video"
             THEN <<"Video", fetches[j][k].index, fetches[j][k].result>>
             ELSE <<"Audio download failed", fetches[j][k].result>>

C10_Witness ==
  \E j \in Jobs :
    /\ pc[j] = "done"
    /\ Len(fetches[j]) = 2
    /\ fetches[j][2].kind = "video"
    /\ fetches[j][2].result \in FetchErrors
    /\ jobs_store[j].status = "failed"

\* C11: a job that is completed or failed has no scratch directory
\* temp/<job_id> any more, on whichever path its worker got there.
C11_TerminalJobHasNoScratchDir ==
  \A j \in Jobs : jobs_store[j].status \in Terminal => j \notin temp_dirs

\* C12: progress is a whole number from 0 to 100 at every step, and no step
\* lowers it.
C12_ProgressNeverDecreases ==
  [][\A j \in DOMAIN jobs_store' :
       /\ jobs_store'[j].progress \in 0..100
       /\ j \in Jobs => jobs_store'[j].progress >= jobs_store[j].progress]_vars

C12_Witness ==
  \E j \in Jobs :
    /\ args[j].n = MaxVideos
    /\ args[j].audio
    /\ jobs_store[j].progress = 100
    /\ pc[j] = "done"

\* C13: video_filename and download_url are set only in a completed job and
\* error only in a failed one, in the table and in every reply; a job that
\* completes after a fallback re-encode has no error.
RecordFieldsMatchStatus(job) ==
  /\ (job.video_filename # None \/ job.download_url # None)
       => job.status = "completed"
  /\ job.error # None => job.status = "failed"

C13_ResultAndErrorMatchStatus ==
  /\ \A j \in Jobs : RecordFieldsMatchStatus(jobs_store[j])
  /\ (response.route = "jobs" /\ response.code = 200)
       => RecordFieldsMatchStatus(response.body)

C13_Witness ==
  \E j \in Jobs :
    /\ Len(cmds[j]) = 2
    /\ cmds[j][2].result = "ok"
    /\ jobs_store[j].status = "completed"
    /\ jobs_store[j].download_url # None
    /\ jobs_store[j].error = None

\* round(num / den), halves to the even neighbour
Round(num, den) ==
  LET q == num \div den
      twice == 2 * (num % den)
  IN IF twice < den THEN q
     ELSE IF twice > den THEN q + 1
     ELSE IF q % 2 = 0 THEN q ELSE q + 1

\* the cuts made so far, the last segment left out
InternalCuts == {k \in 1..Len(segments) : k < num_parts}

\* the ideal end of the k-th segment, from the start it was given
IdealEndOf(k) == segments[k][1] + ideal_segment_length

\* how far the midpoint of the i-th silence is from the k-th ideal end
DistanceOf(i, k) ==
  Abs(midpoint(silence_ranges[i], num_parts) - IdealEndOf(k))

\* C14 as stated: with no silence detected, the k-th boundary is
\* round(k * T / N), a whole number of ms.
C14_EvenSplitIsRounded ==
  (split_pc = "done" /\ silence_ranges = <<>>)
    => \A k \in InternalCuts :
         segments[k][2] =
           Round(k * total_duration, num_parts) * Unit(num_parts)

\* C14 amended: with no silence detected, the k-th boundary is k * T / N,
\* not rounded.
C14_EvenSplitIsExact ==
  (split_pc = "done" /\ silence_ranges = <<>>)
    => \A k \in InternalCuts :
         segments[k][2] * num_parts = k * total_duration * Unit(num_parts)

C14_Witness ==
  /\ split_pc = "done"
  /\ silence_ranges = <<>>
  /\ num_parts >= 3
  /\ total_duration % num_parts # 0

\* C15: of two silences whose midpoints are equally far from the ideal cut,
\* nearer than every other and within tolerance, the cut takes the one
\* that is earlier in the list; and the cut made from a given state is
\* unique, so the same input gives the same segments.
C15_FirstOfEquidistantWins ==
  LET exact == ExactFloats(total_duration, num_parts)
      indices == DOMAIN silence_ranges
  IN /\ \A k \in InternalCuts : \A i, j \in indices :
          (/\ i < j
           /\ DistanceOf(i, k) = DistanceOf(j, k)
           /\ DistanceOf(i, k) <= tolerance
           /\ \A other \in indices : DistanceOf(i, k) <= DistanceOf(other, k))
            => IF exact
               THEN segments[k][2] = midpoint(silence_ranges[i], num_parts)
               ELSE segments[k][2] \in
                      {midpoint(silence_ranges[i], num_parts),
                       midpoint(silence_ranges[j], num_parts),
                       clamp(IdealEndOf(k),
                             total_duration * Unit(num_parts))}
     /\ (exact /\ split_pc = "loop" /\ Len(segments) < num_parts - 1)
          => Cardinality(actual_ends) = 1

C15_Witness ==
  /\ split_pc = "done"
  /\ ExactFloats(total_duration, num_parts)
  /\ \E i, j \in DOMAIN silence_ranges :
       /\ i < j
       /\ DistanceOf(i, 1) = DistanceOf(j, 1)
       /\ DistanceOf(i, 1) <= tolerance
       /\ segments[1][2] = midpoint(silence_ranges[i], num_parts)

\* the first example of SplitExamples
IsExample16 ==
  /\ total_duration = 100000
  /\ num_parts = 4
  /\ silence_ranges = <<<<24800, 25300>>, <<74500, 75900>>>>

\* a list of segments in ms, in the unit of the model
InUnits(segs) ==
  [k \in DOMAIN segs |->
     <<segs[k][1] * Unit(num_parts), segs[k][2] * Unit(num_parts)>>]

\* C16 as stated: the example returns (0,25050), (25050,50000),
\* (50000,75200), (75200,100000).
C16_ExampleCutsAt50000 ==
  (IsExample16 /\ split_pc = "done")
    => segments = InUnits(<<<<0, 25050>>, <<25050, 50000>>,
                            <<50000, 75200>>, <<75200, 100000>>>>)

\* C16 amended: the example returns (0,25050), (25050,50050),
\* (50050,75200), (75200,100000): the second cut is one ideal length after
\* the first cut.
C16_ExampleCutsAt50050 ==
  (IsExample16 /\ split_pc = "done")
    => segments = InUnits(<<<<0, 25050>>, <<25050, 50050>>,
                            <<50050, 75200>>, <<75200, 100000>>>>)

C16_Witness ==
  /\ IsExample16
  /\ split_pc = "done"
  /\ Len(segments) = 4
  /\ segments[2][2] = segments[1][2] + ideal_segment_length

\* C17: a submit with fewer than 2 video URLs is answered with an error and
\* leaves the job table and the workers as they were, so no job with fewer
\* than 2 videos is ever in the table; an accepted submit adds one queued
\* job, fetches nothing and answers with the job id and status queued.
C17_InvalidSubmitNeverEntersTable ==
  [][/\ \A j \in DOMAIN jobs_store' :
          jobs_store'[j].total_videos >= 2 /\ args'[j].n >= 2
     /\ (response'.route = "concat_videos" /\ response'.code = 400)
          => /\ jobs_store' = jobs_store
             /\ pc' = pc
             /\ fetches' = fetches
     /\ (/\ response'.route = "concat_videos"
         /\ response'.code = 200
         /\ response' # response)
          => /\ response'.job_id \notin Jobs
             /\ DOMAIN jobs_store' = Jobs \cup {response'.job_id}
             /\ jobs_store'[response'.job_id].status = "queued"
             /\ response'.body.job_id = response'.job_id
             /\ response'.body.status = "queued"
             /\ fetches' = fetches]_vars

C17_Witness ==
  /\ response.route = "concat_videos"
  /\ response.code = 400
  /\ \E j \in Jobs : jobs_store[j].status = "queued" /\ pc[j] = "L746"

\* C18: a submit that is accepted starts one worker, for the new job and at
\* its first line, and a step of one job's worker leaves every other job's
\* record, scratch directory, output file and worker as they were.
C18_WorkerWritesOnlyItsOwnJob ==
  [][/\ \A a \in DOMAIN jobs_store' \ Jobs :
          /\ DOMAIN jobs_store' = Jobs \cup {a}
          /\ pc[a] = "idle"
          /\ pc'[a] = "L746"
     /\ \A a, b \in JobIds :
          (a # b /\ pc'[a] # pc[a])
            => /\ pc'[b] = pc[b]
               /\ b \in temp_dirs' <=> b \in temp_dirs
               /\ b \in output_files' <=> b \in output_files
               /\ b \in DOMAIN jobs_store' <=> b \in Jobs
               /\ b \in Jobs => jobs_store'[b] = jobs_store[b]]_vars

C18_Witness ==
  /\ pc[1] = "done"
  /\ pc[2] = "done"
  /\ jobs_store[1].status = "completed"
  /\ jobs_store[2].status = "failed"
  /\ 1 \in output_files
  /\ temp_dirs = {}

\* line 1029: the default of tolerance_ms, in ms
hard_max_tolerance == 2000

\* the tighter of 0.4 x ideal_segment_length and the hard maximum
tolerance_window ==
  IF tolerance < hard_max_tolerance * Unit(num_parts)
  THEN tolerance
  ELSE hard_max_tolerance * Unit(num_parts)

\* C19: a cut that is the midpoint of a silence is at most 2000 ms from the
\* ideal end of its segment, however long the segments are.
C19_MidpointCutWithin2000ms ==
  \A k \in InternalCuts : \A i \in DOMAIN silence_ranges :
    segments[k][2] = midpoint(silence_ranges[i], num_parts)
      => DistanceOf(i, k) <= hard_max_tolerance * Unit(num_parts)

\* C20: each internal cut is the midpoint nearest to the ideal end when a
\* midpoint lies within the tolerance window of the ideal end, and the
\* ideal end itself (not beyond the total duration) when none does.  A
\* midpoint on the very edge of the window counts as within it when T / N
\* is a binary fraction, and as either otherwise.
C20_CutIsNearestMidpointOrIdealEnd ==
  LET exact == ExactFloats(total_duration, num_parts)
      indices == DOMAIN silence_ranges
  IN \A k \in InternalCuts :
       LET within == {i \in indices :
                        \/ DistanceOf(i, k) < tolerance_window
                        \/ DistanceOf(i, k) = tolerance_window /\ exact}
           on_edge == {i \in indices :
                         DistanceOf(i, k) = tolerance_window /\ ~exact}
           fallback == clamp(IdealEndOf(k), total_duration * Unit(num_parts))
       IN IF within # {}
          THEN \E i \in within :
                 /\ segments[k][2] = midpoint(silence_ranges[i], num_parts)
                 /\ \A other \in indices :
                      DistanceOf(i, k) <= DistanceOf(other, k)
          ELSE segments[k][2] \in
                 {fallback} \cup
                 {midpoint(silence_ranges[i], num_parts) : i \in on_edge}

\* C21: every segment emitted ends strictly after it starts, so every cut
\* is strictly after the cut before it.
C21_SegmentsStrictlyIncreasing ==
  \A k \in DOMAIN segments : segments[k][1] < segments[k][2]

\* the error of line 939 and the error of lines 928 and 942
TimeoutError == <<"Processing timed out (max 10 minutes)">>

ToolFailure == <<"FFmpeg failed">>

LastCmd(j) == cmds[j][Len(cmds[j])]

\* C22: a job whose last ffmpeg invocation ran into its timeout ends failed
\* with the timeout error, one whose fallback re-encode exited non-zero
\* ends failed with the tool failure error, and neither error is ever
\* recorded for the other outcome.
C22_TimeoutIsNotToolFailure ==
  \A j \in Jobs :
    Len(cmds[j]) > 0 =>
      /\ jobs_store[j].error = TimeoutError => LastCmd(j).result = "timeout"
      /\ jobs_store[j].error = ToolFailure => LastCmd(j).result = "nonzero"
      /\ (pc[j] = "done" /\ LastCmd(j).result = "timeout")
           => /\ jobs_store[j].status = "failed"
              /\ jobs_store[j].error = TimeoutError
      /\ (pc[j] = "done" /\ LastCmd(j).result = "nonzero")
           => /\ jobs_store[j].status = "failed"
              /\ jobs_store[j].error = ToolFailure

C22_Witness ==
  \E j \in Jobs :
    /\ pc[j] = "done"
    /\ Len(cmds[j]) = 2
    /\ cmds[j][1].result = "nonzero"
    /\ cmds[j][2].result = "timeout"
    /\ jobs_store[j].error = TimeoutError

\* C23: every encode invocation is given a timeout and comes back, with a
\* result or with a timeout outcome.
C23_EveryEncodeIsBounded ==
  \A j \in Jobs : \A i \in DOMAIN cmds[j] :
    cmds[j][i].timeout > 0 /\ cmds[j][i].result # "blocked"

\* C24: every re-encode that wrote an output file was asked to put the
\* container metadata before the media data.
C24_EveryReencodeHasFaststart ==
  \A j \in Jobs : \A i \in DOMAIN cmds[j] :
    (cmds[j][i].vcodec = "libx264" /\ cmds[j][i].result = "ok")
      => cmds[j][i].faststart

\* the k-th cut is the total duration because line 1074 cut its end down
ClampedAt(k) ==
  /\ IdealEndOf(k) > total_duration * Unit(num_parts)
  /\ segments[k][2] = total_duration * Unit(num_parts)

\* C25: a segment before the last is between 0.6 and 1.4 ideal lengths
\* long, unless its end was cut down to the total duration, and then every
\* later segment is empty at the total duration; and when the ideal length
\* is positive no two cuts are the midpoint of the same silence.
C25_SegmentLengthWithinWindow ==
  /\ \A k \in InternalCuts :
       \/ /\ 6 * ideal_segment_length
               <= 10 * (segments[k][2] - segments[k][1])
          /\ 10 * (segments[k][2] - segments[k][1])
               <= 14 * ideal_segment_length
       \/ /\ ClampedAt(k)
          /\ \A later \in DOMAIN segments :
               later > k =>
                 segments[later] = <<total_duration * Unit(num_parts),
                                     total_duration * Unit(num_parts)>>
  /\ ideal_segment_length > 0 =>
       \A k1, k2 \in InternalCuts : \A i \in DOMAIN silence_ranges :
         (/\ k1 < k2
          /\ segments[k1][2] = midpoint(silence_ranges[i], num_parts))
           => segments[k2][2] # midpoint(silence_ranges[i], num_parts)

C25_Witness ==
  /\ split_pc = "done"
  /\ total_duration > 0
  /\ \E k \in InternalCuts : ClampedAt(k)
  /\ \E i \in DOMAIN silence_ranges :
       /\ segments[1][2] = midpoint(silence_ranges[i], num_parts)
       /\ segments[1][2] # ideal_segment_length

\* C26: the k-th fetch of a job is the video of index k - 1, or the
\* replacement audio once every video is there; a fetch that failed is the
\* job's last one, and from then on the job is never processing or
\* completed and no encode command is run for it.
C26_NothingAfterFailedFetch ==
  \A j \in Jobs : \A k \in DOMAIN fetches[j] :
    /\ IF fetches[j][k].kind = "video"
       THEN fetches[j][k].index = k - 1 /\ k <= args[j].n
       ELSE k = args[j].n + 1 /\ args[j].audio
    /\ fetches[j][k].result # "ok"
         => /\ k = Len(fetches[j])
            /\ jobs_store[j].status \notin {"processing", "completed"}
            /\ cmds[j] = <<>>

C26_Witness ==
  \E j \in Jobs :
    /\ pc[j] = "done"
    /\ Len(fetches[j]) = MaxVideos
    /\ fetches[j][1].result = "ok"
    /\ fetches[j][MaxVideos].kind = "video"
    /\ fetches[j][MaxVideos].result \in FetchErrors
    /\ jobs_store[j].status = "failed"
    /\ cmds[j] = <<>>

\* the worker is at, or has been through, the mixing of lines 831-833 or
\* 863-865
Mixing(j) ==
  \/ mixed[j]
  \/ pc[j] \in {"L831", "L833", "L863", "L865"}
  \/ jobs_store[j].message = <<"Mixing sound effects...">>

\* C27: sound effects are mixed only in a job whose replacement audio was
\* asked for and fetched; a job without audio_url never gets to the mixing,
\* whatever its sound effects are, and its encode commands take no audio
\* input and are those its overlays alone decide.
C27_NoMixWithoutAudio ==
  \A j \in Jobs :
    /\ Mixing(j)
         => /\ args[j].audio
            /\ args[j].sound_effects > 0
            /\ \E k \in DOMAIN fetches[j] :
                 fetches[j][k].kind = "audio" /\ fetches[j][k].result = "ok"
    /\ ~args[j].audio
         => \A i \in DOMAIN cmds[j] :
              /\ ~cmds[j][i].audio_input
              /\ cmds[j][i].tool =
                   IF has_overlays(j) THEN "write_videofile" ELSE "ffmpeg"

C27_Witness ==
  \E j \in Jobs :
    /\ ~args[j].audio
    /\ args[j].sound_effects > 0
    /\ pc[j] = "done"
    /\ cmds[j] # <<>>
    /\ ~mixed[j]
    /\ jobs_store[j].status = "completed"

\* the overlays a job asks for, images and texts
overlays_asked(j) == args[j].image_overlays + args[j].overlays

\* C28: the step that builds the overlay clips goes on to the mixing or to
\* the rendering however many of the clips could be built, none included,
\* and writes nothing to the job's record; every encode of a job that got
\* that far is the moviepy re-encode.
C28_FailedOverlayIsSkipped ==
  [][\A j \in Jobs :
       /\ (pc[j] = "L796" /\ overlay_clips'[j] # overlay_clips[j])
            => /\ overlay_clips'[j] \in 0..overlays_asked(j)
               /\ pc'[j] \in {"L831", "L839"}
               /\ jobs_store'[j] = jobs_store[j]
               /\ exc'[j] = exc[j]
       /\ overlay_clips'[j] # NoClips
            => \A i \in DOMAIN cmds'[j] :
                 cmds'[j][i].tool = "write_videofile"]_vars

C28_Witness ==
  \E j \in Jobs :
    /\ overlays_asked(j) > 0
    /\ overlay_clips[j] = 0
    /\ pc[j] = "done"
    /\ Len(cmds[j]) = 1
    /\ cmds[j][1].vcodec = "libx264"
    /\ jobs_store[j].status = "completed"
    /\ jobs_store[j].error = None
====
